---- MODULE Spec2Model ----
(***************************************************************************)
(* Pong in SQL (src/src/main.rs).  The game is one row of the table        *)
(* `state`; SETUP_SQL inserts it and every execution of TICK_SQL replaces  *)
(* it by the row of the CTE next_state.  The CTEs ai, step, wall, paddle,  *)
(* sc and next_state are the operators below, in the order of the query.   *)
(*                                                                         *)
(* Arithmetic is DuckDB's: `/` on integers is floating-point division, and *)
(* a DOUBLE stored into (or CAST to) INTEGER is rounded to the nearest     *)
(* integer, ties to even.  random() is a uniform draw from [0,1); a draw   *)
(* is modelled as k/RandDen for k in 0..RandDen-1, and every occurrence of *)
(* random() in the SQL is a draw of its own.                               *)
(***************************************************************************)
EXTENDS Integers, FiniteSets, Sequences, TLC

(* ------------------------------------------------------------------ *)
(* params (SETUP_SQL)                                                 *)
(* ------------------------------------------------------------------ *)
W == 80
H == 25
PADDLE_H == 7
PADDLE_SPEED == 2

(* ------------------------------------------------------------------ *)
(* bounds of the model                                                *)
(* ------------------------------------------------------------------ *)
\* a draw of random() is k/RandDen
RandDen == 20
\* TICK_SQL is executed while tick < MaxTick
MaxTick == 42

\* the row of the table state
VARIABLES tick, ax, bx, ball_x, ball_y, vx, vy, score_a, score_b

\* main(): pc is its position, raw and hidden are the terminal's raw mode and
\* hidden cursor, err is the error main returns ("none" while it runs or
\* returns Ok), frame holds the lines of a RENDER_SQL result being drawn
VARIABLES pc, raw, hidden, err, frame

vars == <<tick, ax, bx, ball_x, ball_y, vx, vy, score_a, score_b>>

term == <<raw, hidden, err>>

allvars == <<vars, pc, raw, hidden, err, frame>>

(* ------------------------------------------------------------------ *)
(* SQL scalar functions                                               *)
(* ------------------------------------------------------------------ *)
greatest(a, b) == IF a >= b THEN a ELSE b

least(a, b) == IF a <= b THEN a ELSE b

\* CAST(num/den AS INTEGER) for den > 0: nearest integer, ties to even
CastInt(num, den) ==
    LET q == num \div den
        r == num % den
    IN  IF 2 * r < den THEN q
        ELSE IF 2 * r > den THEN q + 1
        ELSE IF q % 2 = 0 THEN q ELSE q + 1

\* the numerators k of the draws k/RandDen of random()
Draws == 0 .. (RandDen - 1)

\* random() < pct/100 for the draw k/RandDen
Below(k, pct) == 100 * k < pct * RandDen

(* ------------------------------------------------------------------ *)
(* the serve: SETUP_SQL's row and next_state's re-serve               *)
(* ------------------------------------------------------------------ *)
\* CAST(H/2 + (random() * 6 - 3) AS INTEGER)
ServeRow(k) == CastInt(H * RandDen + 12 * k - 6 * RandDen, 2 * RandDen)

\* CAST((random() * 5 - 2) AS INTEGER)
ServeVy(k) == CastInt(5 * k - 2 * RandDen, RandDen)

\* CASE WHEN random() < 0.5 THEN 1 ELSE -1 END
ServeDir(k) == IF Below(k, 50) THEN 1 ELSE -1

ServeRows == {ServeRow(k) : k \in Draws}

ServeVys == {ServeVy(k) : k \in Draws}

ServeDirs == {ServeDir(k) : k \in Draws}

\* (H-PADDLE_H)/2 stored into the INTEGER column ax (and bx)
PaddleStart == CastInt(H - PADDLE_H, 2)

\* W/2 stored into the INTEGER column ball_x
BallStart == CastInt(W, 2)

\* the row SETUP_SQL inserts
InitRow ==
    /\ tick = 0
    /\ ax = PaddleStart
    /\ bx = PaddleStart
    /\ ball_x = BallStart
    /\ ball_y \in ServeRows
    /\ vx \in ServeDirs
    /\ vy \in ServeVys
    /\ score_a = 0
    /\ score_b = 0

\* main() after the connection is opened and SETUP_SQL has run
Init ==
    /\ InitRow
    /\ pc = "raw_mode"
    /\ raw = FALSE
    /\ hidden = FALSE
    /\ err = "none"
    /\ frame = <<>>

(* ------------------------------------------------------------------ *)
(* STEP 1: ai                                                         *)
(* ------------------------------------------------------------------ *)
\* the offset subtracted from ball_y by the trick-shot CASE, whose WHEN
\* conditions are four draws k1..k4 tested in order
TrickOffset(k1, k2, k3, k4) ==
    IF Below(k1, 25) THEN 0
    ELSE IF Below(k2, 50) THEN 1
    ELSE IF Below(k3, 55) THEN 3
    ELSE IF Below(k4, 75) THEN 5
    ELSE 6

TrickOffsets == {TrickOffset(k1, k2, k3, k4) : k1 \in Draws, k2 \in Draws,
                                               k3 \in Draws, k4 \in Draws}

\* WHEN random() < 0.85 (defensive tracking) ELSE (hold)
Tracks(k) == Below(k, 85)

TrackOutcomes == {Tracks(k) : k \in Draws}

\* greatest(s.ball_y - off, 1)
TrickTarget(by, off) == greatest(by - off, 1)

\* the inner CASE of the defensive branch, for the paddle at row pos
TrackTarget(by, pos) ==
    IF by < pos + 2 THEN greatest(pos - PADDLE_SPEED, 1)
    ELSE IF by > pos + PADDLE_H - 3 THEN least(pos + PADDLE_SPEED, H - PADDLE_H - 1)
    ELSE pos

\* s.vx < 0 AND s.ball_x <= 5
NearA == vx < 0 /\ ball_x <= 5

\* s.vx > 0 AND s.ball_x >= p.W - 6
NearB == vx > 0 /\ ball_x >= W - 6

\* the values ai.ax2 (ai.bx2) can take: near is the trick-shot condition
\* of the paddle and pos its current row
AiTargets(near, by, pos) ==
    IF near THEN {TrickTarget(by, off) : off \in TrickOffsets}
    ELSE {IF t THEN TrackTarget(by, pos) ELSE pos : t \in TrackOutcomes}

(* ------------------------------------------------------------------ *)
(* STEP 2: step, STEP 3: wall                                         *)
(* ------------------------------------------------------------------ *)
\* variant: the column advances by the vertical velocity
StepXByVy == ball_x + vy

StepX == ball_x + vx

StepY == ball_y + vy

\* variant: the bottom wall does not clamp the row
WallYTopOnly(ny) == IF ny <= 1 THEN 1 ELSE ny

WallY(ny) == IF ny <= 1 THEN 1 ELSE IF ny >= H - 2 THEN H - 2 ELSE ny

\* variant: only the top wall flips the vertical velocity
WallVyTopOnly(ny, v) == IF ny <= 1 THEN -v ELSE v

WallVy(ny, v) == IF ny <= 1 \/ ny >= H - 2 THEN -v ELSE v

(* ------------------------------------------------------------------ *)
(* STEP 4: paddle                                                     *)
(* ------------------------------------------------------------------ *)
\* variant: the left paddle is tested at its row before the tick
HitAOldRow(nx, ny1, vx1, ax2) ==
    nx <= 1 /\ vx1 < 0 /\ ny1 >= ax /\ ny1 <= ax + PADDLE_H - 1

\* w.nx <= 1 AND w.vx1 < 0 AND w.ny1 BETWEEN ai.ax2 AND ai.ax2+PADDLE_H-1
HitA(nx, ny1, vx1, ax2) ==
    nx <= 1 /\ vx1 < 0 /\ ny1 >= ax2 /\ ny1 <= ax2 + PADDLE_H - 1

\* variant: the right paddle is tested at its row before the tick
HitBOldRow(nx, ny1, vx1, bx2) ==
    nx >= W - 2 /\ vx1 > 0 /\ ny1 >= bx /\ ny1 <= bx + PADDLE_H - 1

\* w.nx >= W-2 AND w.vx1 > 0 AND w.ny1 BETWEEN ai.bx2 AND ai.bx2+PADDLE_H-1
HitB(nx, ny1, vx1, bx2) ==
    nx >= W - 2 /\ vx1 > 0 /\ ny1 >= bx2 /\ ny1 <= bx2 + PADDLE_H - 1

\* variant: the centre zone is one row short
ZoneShortCentre(d) ==
    IF d = 0 THEN -2
    ELSE IF d <= 2 THEN -1
    ELSE IF d <= 3 THEN 0
    ELSE IF d <= 5 THEN 1
    ELSE 2

\* the five hit zones, d = w.ny1 - ai.ax2 (or ai.bx2)
Zone(d) ==
    IF d = 0 THEN -2
    ELSE IF d <= 2 THEN -1
    ELSE IF d <= 4 THEN 0
    ELSE IF d <= 5 THEN 1
    ELSE 2

PaddleVx(nx, ny1, vx1, ax2, bx2) ==
    IF HitA(nx, ny1, vx1, ax2) THEN 1
    ELSE IF HitB(nx, ny1, vx1, bx2) THEN -1
    ELSE vx1

PaddleVy(nx, ny1, vx1, vy1, ax2, bx2) ==
    IF HitA(nx, ny1, vx1, ax2) THEN Zone(ny1 - ax2)
    ELSE IF HitB(nx, ny1, vx1, bx2) THEN Zone(ny1 - bx2)
    ELSE vy1

(* ------------------------------------------------------------------ *)
(* STEP 5: sc                                                         *)
(* ------------------------------------------------------------------ *)
\* variant: the ball scores one column later, off the field
PointToLate(nx) ==
    IF nx < 0 THEN "B"
    ELSE IF nx > W - 1 THEN "A"
    ELSE "none"

\* variant: the ball in the left paddle's column already counts as past it
PointToEarly(nx) ==
    IF nx <= 1 THEN "B"
    ELSE IF nx > W - 2 THEN "A"
    ELSE "none"

\* sc.point_to; "none" is NULL
PointTo(nx) ==
    IF nx < 1 THEN "B"
    ELSE IF nx > W - 2 THEN "A"
    ELSE "none"

(* ------------------------------------------------------------------ *)
(* STEP 6: next_state and the UPDATE                                  *)
(* ------------------------------------------------------------------ *)
\* variant: the two serve columns are exchanged
ServeXSwapped(pt) == IF pt = "A" THEN CastInt(W - 2, 2) ELSE CastInt(W + 2, 2)

\* sc.W/2 + 1 and sc.W/2 - 1 stored into the INTEGER column ball_x
ServeX(pt) == IF pt = "A" THEN CastInt(W + 2, 2) ELSE CastInt(W - 2, 2)

ServeVx(pt) == IF pt = "A" THEN -1 ELSE 1

\* variant: a point is counted for both players
PointBoth(pt, who) == IF pt # "none" THEN 1 ELSE 0

\* COALESCE((sc.point_to = who)::INT, 0)
Point(pt, who) == IF pt = who THEN 1 ELSE 0

\* variant: a scoring tick is not counted
NextTickInPlay == IF PointTo(StepX) = "none" THEN tick + 1 ELSE tick

\* s.tick + 1 AS tick
NextTick == tick + 1

\* the row of next_state for the targets ax2, bx2 and the re-serve sy, svy
Commit(ax2, bx2, sy, svy) ==
    LET nx  == StepX
        ny1 == WallY(StepY)
        vy1 == WallVy(StepY, vy)
        pt  == PointTo(nx)
    IN  /\ tick' = NextTick
        /\ ax' = ax2
        /\ bx' = bx2
        /\ ball_x' = IF pt = "none" THEN nx ELSE ServeX(pt)
        /\ ball_y' = IF pt = "none" THEN ny1 ELSE sy
        /\ vx' = IF pt = "none" THEN PaddleVx(nx, ny1, vx, ax2, bx2) ELSE ServeVx(pt)
        /\ vy' = IF pt = "none" THEN PaddleVy(nx, ny1, vx, vy1, ax2, bx2) ELSE svy
        /\ score_a' = score_a + Point(pt, "A")
        /\ score_b' = score_b + Point(pt, "B")

\* one execution of TICK_SQL
Tick ==
    /\ \E ax2 \in AiTargets(NearA, ball_y, ax) :
       \E bx2 \in AiTargets(NearB, ball_y, bx) :
          IF PointTo(StepX) = "none"
          THEN Commit(ax2, bx2, ball_y, vy)
          ELSE \E sy \in ServeRows : \E svy \in ServeVys :
                   Commit(ax2, bx2, sy, svy)

(* ------------------------------------------------------------------ *)
(* main                                                               *)
(* ------------------------------------------------------------------ *)
\* a `?` that returns the error: nothing after it runs, the terminal is
\* left as it is
Fail(e) ==
    /\ pc' = "failed"
    /\ err' = e
    /\ UNCHANGED <<vars, raw, hidden, frame>>

\* terminal::enable_raw_mode()?
EnableRaw ==
    /\ pc = "raw_mode"
    /\ \/ /\ raw' = TRUE
          /\ pc' = "clear"
          /\ UNCHANGED <<vars, hidden, err, frame>>
       \/ Fail("io")

\* stdout.queue(Clear)?.queue(cursor::Hide)?.flush()?
ClearHide ==
    /\ pc = "clear"
    /\ \/ /\ hidden' = TRUE
          /\ pc' = "poll"
          /\ UNCHANGED <<vars, raw, err, frame>>
       \/ Fail("io")

\* what event::poll and event::read can deliver in one iteration
Events == {"none", "esc", "key", "other"}

\* the exit poll at the top of the loop: only a key event with code Esc
\* breaks, every other event is read and dropped
Poll ==
    /\ pc = "poll"
    /\ \/ \E ev \in Events :
             /\ pc' = IF ev = "esc" THEN "exit" ELSE "tick"
             /\ UNCHANGED <<vars, term, frame>>
       \/ Fail("io")

\* conn.execute(TICK_SQL, [])?
RunTick ==
    /\ pc = "tick"
    /\ \/ /\ tick < MaxTick
          /\ Tick
          /\ pc' = "render"
          /\ UNCHANGED <<term, frame>>
       \/ Fail("io")

\* the rest of the loop body: RENDER_SQL is prepared and queried, its
\* lines and the FPS line are queued and flushed, the loop sleeps; the
\* lines are locals that are dropped at the end of the iteration
Render ==
    /\ pc = "render"
    /\ \/ /\ pc' = "poll"
          /\ UNCHANGED <<vars, term, frame>>
       \/ Fail("io")

\* after the loop: stdout.queue(cursor::Show)?.flush()?, then
\* terminal::disable_raw_mode()?, then Ok(())
Shutdown ==
    /\ pc = "exit"
    /\ \/ /\ hidden' = FALSE
          /\ raw' = FALSE
          /\ pc' = "done"
          /\ UNCHANGED <<vars, err, frame>>
       \/ Fail("io")
       \/ /\ hidden' = FALSE
          /\ pc' = "failed"
          /\ err' = "restore"
          /\ UNCHANGED <<vars, raw, frame>>

Next ==
    \/ EnableRaw
    \/ ClearHide
    \/ Poll
    \/ RunTick
    \/ Render
    \/ Shutdown

Spec == Init /\ [][Next]_allvars

(* ------------------------------------------------------------------ *)
(* RENDER_SQL                                                         *)
(* ------------------------------------------------------------------ *)
\* the three characters of a line: "^" is the half block of the borders,
\* "#" the full block of paddles, ball and centre line, " " the blank
BORDER == "^"

BLOCK == "#"

BLANK == " "

\* variant: the paddles are drawn before the border rows
CellPaddlesFirst(x, y) ==
    IF x = 1 /\ y >= ax /\ y <= ax + PADDLE_H - 1 THEN BLOCK
    ELSE IF x = W - 2 /\ y >= bx /\ y <= bx + PADDLE_H - 1 THEN BLOCK
    ELSE IF y = 0 \/ y = H - 1 THEN BORDER
    ELSE IF x = ball_x /\ y = ball_y THEN BLOCK
    ELSE IF 2 * x = W /\ y % 3 = 1 THEN BLOCK
    ELSE BLANK

\* the CASE of RENDER_SQL for column x of row y; x = p.W/2 compares the
\* integer x with the DOUBLE W/2
Cell(x, y) ==
    IF y = 0 \/ y = H - 1 THEN BORDER
    ELSE IF x = 1 /\ y >= ax /\ y <= ax + PADDLE_H - 1 THEN BLOCK
    ELSE IF x = W - 2 /\ y >= bx /\ y <= bx + PADDLE_H - 1 THEN BLOCK
    ELSE IF x = ball_x /\ y = ball_y THEN BLOCK
    ELSE IF 2 * x = W /\ y % 3 = 1 THEN BLOCK
    ELSE BLANK

\* string_agg(..., '') over range(0, W) for one y: the cells in the order
\* of x, which is the order range() delivers them in
Line(y) == [c \in 1 .. W |-> Cell(c - 1, y)]

\* the result of RENDER_SQL: GROUP BY y over range(0, H), ORDER BY y
RenderLines == [r \in 1 .. H |-> Line(r - 1)]

\* rows of state (tick, ax, bx, ball_x, ball_y, vx, vy, score_a, score_b)
\* that Spec reaches at pc = "render"
RenderSamples ==
    { <<1, 7, 7, 39, 8, -1, -2, 0, 0>>, <<1, 7, 7, 39, 13, -1, 3, 0, 0>>, <<1, 9, 9, 39, 16, -1, 1, 0, 0>>,
      <<2, 5, 5, 38, 6, -1, -2, 0, 0>>, <<3, 9, 15, 37, 20, -1, 2, 0, 0>>, <<5, 1, 1, 35, 1, -1, 2, 0, 0>>,
      <<35, 1, 10, 75, 9, 1, -2, 0, 0>>, <<35, 1, 19, 75, 19, 1, -1, 0, 0>>, <<35, 1, 23, 75, 22, 1, -1, 0, 0>>,
      <<36, 2, 1, 4, 3, -1, -2, 0, 0>>, <<36, 12, 1, 4, 15, -1, 2, 0, 0>>, <<36, 19, 1, 4, 18, -1, -1, 0, 0>>,
      <<36, 20, 1, 4, 19, -1, -1, 0, 0>>, <<36, 23, 1, 4, 20, -1, -3, 0, 0>>, <<38, 1, 1, 78, 3, -1, -1, 0, 0>>,
      <<38, 1, 1, 78, 8, 1, 1, 0, 0>>, <<38, 1, 4, 78, 3, 1, -2, 0, 0>>, <<38, 1, 12, 78, 17, -1, 1, 0, 0>>,
      <<38, 1, 15, 78, 23, 1, -2, 0, 0>>, <<38, 1, 18, 78, 23, -1, 1, 0, 0>>, <<38, 1, 21, 78, 20, 1, -1, 0, 0>>,
      <<38, 9, 6, 78, 12, -1, 2, 0, 0>>, <<39, 1, 1, 1, 1, 1, -2, 0, 0>>, <<39, 1, 1, 1, 5, 1, 0, 0, 0>>,
      <<39, 1, 1, 41, 11, -1, -2, 1, 0>>, <<39, 2, 1, 1, 1, -1, 2, 0, 0>>, <<39, 4, 1, 1, 3, -1, -2, 0, 0>>,
      <<39, 8, 9, 1, 14, 1, 2, 0, 0>>, <<39, 13, 1, 1, 18, 1, 1, 0, 0>>, <<39, 16, 1, 1, 14, -1, -3, 0, 0>>,
      <<39, 18, 1, 1, 23, 1, 1, 0, 0>>, <<40, 1, 1, 39, 11, 1, -2, 0, 1>>, <<40, 1, 1, 40, 8, -1, -2, 1, 0>>,
      <<40, 1, 1, 40, 10, -1, -2, 1, 0>>, <<40, 1, 1, 40, 11, -1, -2, 1, 0>>, <<40, 1, 1, 40, 13, -1, -2, 1, 0>>,
      <<40, 1, 1, 40, 18, -1, 3, 1, 0>>, <<41, 1, 1, 39, 10, -1, -2, 1, 0>>, <<41, 1, 1, 39, 15, -1, 0, 1, 0>>,
      <<41, 1, 1, 39, 20, -1, 3, 1, 0>>, <<42, 1, 1, 41, 9, 1, -2, 0, 1>>, <<42, 1, 1, 41, 14, 1, 0, 0, 1>>,
      <<42, 1, 1, 41, 19, 1, 2, 0, 1>> }

\* main() about to run RENDER_SQL on one of these rows
InitRender ==
    /\ \E s \in RenderSamples :
          /\ tick = s[1] /\ ax = s[2] /\ bx = s[3]
          /\ ball_x = s[4] /\ ball_y = s[5]
          /\ vx = s[6] /\ vy = s[7]
          /\ score_a = s[8] /\ score_b = s[9]
    /\ pc = "render"
    /\ raw = TRUE
    /\ hidden = TRUE
    /\ err = "none"
    /\ frame = <<>>

\* conn.prepare(RENDER_SQL)?.query([])?: the lines of the result
RenderQuery ==
    /\ pc = "render"
    /\ frame' = RenderLines
    /\ pc' = "draw"
    /\ UNCHANGED <<vars, term>>

\* the lines are queued and flushed one below the other, then dropped
Draw ==
    /\ pc = "draw"
    /\ frame' = <<>>
    /\ pc' = "poll"
    /\ UNCHANGED <<vars, term>>

NextRender == RenderQuery \/ Draw

\* RENDER_SQL applied to the sampled rows, in the two steps of the loop
\* body that Render of Spec takes at once
SpecRender == InitRender /\ [][NextRender]_allvars

(* ================================================================== *)
(* Properties                                                         *)
(* ================================================================== *)
\* the tentative column, the wall-reflected row and the wall-reflected
\* vertical velocity of the tick taken from the current state, written out
TentX == ball_x + vx

TentY == ball_y + vy

ReflY == IF TentY <= 1 THEN 1 ELSE IF TentY >= H - 2 THEN H - 2 ELSE TentY

ReflVy == IF TentY <= 1 \/ TentY >= H - 2 THEN 0 - vy ELSE vy

NoScore == score_a' = score_a /\ score_b' = score_b

\* C1: one tick leaves score_a and score_b each unchanged or incremented
\* by exactly 1, and never increments both.
C1_ScoreStep ==
    [][ /\ score_a' \in {score_a, score_a + 1}
        /\ score_b' \in {score_b, score_b + 1}
        /\ ~(score_a' = score_a + 1 /\ score_b' = score_b + 1) ]_vars

\* B has just scored: the ball is re-served and A's score is untouched
C1_Witness == score_b = 1 /\ score_a = 0 /\ ball_x = CastInt(W - 2, 2) /\ tick = 40

\* C2: in every reachable state 1 <= ball_y <= H-2 and 0 <= ball_x <= W-1.
C2_BallInField ==
    /\ 1 <= ball_y /\ ball_y <= H - 2
    /\ 0 <= ball_x /\ ball_x <= W - 1

\* the ball has just been clamped to the bottom wall and reflected
C2_Witness == ball_y = H - 2 /\ vy < 0 /\ tick > 0 /\ score_a + score_b = 0

\* C3: in every reachable state both paddle rows lie in [1, H-PADDLE_H-1].
C3_PaddlesInRange ==
    /\ 1 <= ax /\ ax <= H - PADDLE_H - 1
    /\ 1 <= bx /\ bx <= H - PADDLE_H - 1

\* C4: B scores iff tentative x < 1, A scores iff tentative x > W-2, and
\* otherwise no score changes and the ball is at the tentative position.
C4_ScoreIffPast ==
    [][ /\ (score_b' = score_b + 1) <=> (TentX < 1)
        /\ (score_a' = score_a + 1) <=> (TentX > W - 2)
        /\ (1 <= TentX /\ TentX <= W - 2) =>
               (NoScore /\ ball_x' = TentX /\ ball_y' = ReflY) ]_vars

\* A has scored the first point of the game
C4_Witness == score_a = 1 /\ score_b = 0 /\ tick > 40

\* C5: after a scoring tick the ball is at W/2+1 with vx = -1 (A scored) or
\* at W/2-1 with vx = +1 (B scored), its row within 3 of H/2, and its
\* column is not the tentative one.
C5_Reserve ==
    [][ /\ (score_a' = score_a + 1) =>
               (2 * ball_x' = W + 2 /\ vx' = -1)
        /\ (score_b' = score_b + 1) =>
               (2 * ball_x' = W - 2 /\ vx' = 1)
        /\ ~NoScore =>
               /\ 2 * ball_y' - H <= 6
               /\ H - 2 * ball_y' <= 6
               /\ ball_x' # TentX ]_vars

\* the state right after A's point
C5_Witness == score_a = 1 /\ 2 * ball_x = W + 2 /\ vx = -1 /\ tick = 39

\* C6: after a scoring tick the ball moves toward the player who did not
\* score: toward column W-2 (B's paddle) when A scored, toward column 1
\* (A's paddle) when B scored.
C6_ServeAwayFromScorer ==
    [][ /\ (score_a' = score_a + 1) => vx' > 0
        /\ (score_b' = score_b + 1) => vx' < 0 ]_vars

\* C7: in every reachable state vy is one of -2, -1, 0, 1, 2.
C7_VyRange == vy \in {-2, -1, 0, 1, 2}

\* the bounce table of the claim, indexed by d + 1
C8_Table == <<-2, -1, -1, 0, 0, 1, 2>>

\* C8: on a paddle collision that stays in play the offset d of the ball's
\* row from the paddle's row is one of 0..6 and the new vy is the table's
\* entry for d, for both paddles.
C8_BounceTable ==
    [][ /\ (NoScore /\ vx < 0 /\ vx' > 0) =>
               /\ ball_y' - ax' \in 0 .. 6
               /\ vy' = C8_Table[ball_y' - ax' + 1]
        /\ (NoScore /\ vx > 0 /\ vx' < 0) =>
               /\ ball_y' - bx' \in 0 .. 6
               /\ vy' = C8_Table[ball_y' - bx' + 1] ]_vars

\* the ball has just left the centre zone of the left paddle
C8_Witness == ball_x = 1 /\ vx = 1 /\ ball_y - ax = 4 /\ vy = 0

\* C9: in a non-scoring tick vx becomes +1 iff tentative x <= 1, the ball
\* moves left and the wall-reflected row is within the left paddle's new
\* span; mirrored for -1; otherwise vx is unchanged and vy is the
\* wall-reflected value.
C9_Reversal ==
    [][ NoScore =>
          LET hitA == TentX <= 1 /\ vx < 0
                      /\ ax' <= ReflY /\ ReflY <= ax' + PADDLE_H - 1
              hitB == TentX >= W - 2 /\ vx > 0
                      /\ bx' <= ReflY /\ ReflY <= bx' + PADDLE_H - 1
          IN  /\ (vx < 0 /\ vx' = 1) <=> hitA
              /\ (vx > 0 /\ vx' = -1) <=> hitB
              /\ (~hitA /\ ~hitB) => (vx' = vx /\ vy' = ReflVy) ]_vars

\* the ball was clamped to the top wall and hit the left paddle in one tick
C9_Witness == ball_x = 1 /\ vx = 1 /\ ball_y = 1 /\ ax = 1

\* C10: every tick increments the tick counter by exactly 1.
C10_TickCounts == [][tick' = tick + 1]_vars

\* a scoring tick was counted: the first point falls in the 40th tick
C10_Witness == tick = 41 /\ score_a + score_b = 1

\* C12: RENDER_SQL yields H lines in the order of y, each of W cells; a
\* cell of row 0 or H-1 is the border, any other cell is a block iff it is
\* a cell of the left paddle, the right paddle, the ball or the centre
\* line, and blank otherwise; the row of state is not changed.
C12_Render ==
    [][ /\ UNCHANGED vars
        /\ pc' = "draw" =>
             /\ Len(frame') = H
             /\ \A y \in 0 .. H - 1 :
                  /\ Len(frame'[y + 1]) = W
                  /\ \A x \in 0 .. W - 1 :
                       frame'[y + 1][x + 1] =
                         IF y \in {0, H - 1} THEN BORDER
                         ELSE IF \/ (x = 1 /\ y \in ax .. ax + PADDLE_H - 1)
                                 \/ (x = W - 2 /\ y \in bx .. bx + PADDLE_H - 1)
                                 \/ <<x, y>> = <<ball_x, ball_y>>
                                 \/ (x = W \div 2 /\ y % 3 = 1)
                              THEN BLOCK
                         ELSE BLANK ]_allvars

\* a frame in which the right paddle reaches into the bottom border row,
\* which is drawn as border, and the ball is drawn
C12_Witness ==
    /\ pc = "draw"
    /\ bx + PADDLE_H - 1 >= H - 1
    /\ frame[H][W - 1] = BORDER
    /\ frame[ball_y + 1][ball_x + 1] = BLOCK

\* C13: the exit key is polled once per iteration, before the tick; when
\* it is seen no further tick or render runs and main ends with the cursor
\* shown and raw mode disabled (unless disabling raw mode itself fails);
\* any other event leaves the loop running and the row of state unchanged.
C13_ExitKey ==
    [][ /\ tick' # tick => pc = "tick"
        /\ pc' = "tick" => (pc = "poll" /\ UNCHANGED vars)
        /\ pc = "poll" => (pc' \in {"tick", "exit", "failed"} /\ UNCHANGED vars)
        /\ (pc = "exit" /\ err' # "restore") =>
               (pc' = "done" /\ ~raw' /\ ~hidden' /\ UNCHANGED vars) ]_allvars

\* C14: when a collaborator operation fails, main returns the error with
\* raw mode disabled and the cursor shown.
C14_RestoredOnError ==
    (pc = "failed" /\ err = "io") => (~raw /\ ~hidden)

\* C15: the ball's row after an in-play tick is the tentative row clamped
\* to 1 and H-2, its vy (when no paddle is hit) is negated exactly when the
\* row was clamped, and the wall stage's vy never points into the wall the
\* row was clamped to.
C15_WallStage ==
    [][ /\ NoScore =>
               ball_y' = IF TentY <= 1 THEN 1
                         ELSE IF TentY >= H - 2 THEN H - 2 ELSE TentY
        /\ (NoScore /\ vx' = vx) =>
               vy' = IF TentY <= 1 \/ TentY >= H - 2 THEN 0 - vy ELSE vy
        /\ (StepY <= 1 /\ WallY(StepY) = 1) => WallVy(StepY, vy) >= 0
        /\ (StepY >= H - 2 /\ WallY(StepY) = H - 2) => WallVy(StepY, vy) =< 0
      ]_vars

\* the ball has just been reflected off the top wall away from the paddles
C15_Witness ==
    /\ ball_y = 1 /\ vy = 2
    /\ ball_x > 1 /\ ball_x < W - 2
    /\ tick > 0 /\ score_a + score_b = 0

\* the exit angle each trick-shot offset is chosen for
C16_Aim == [off \in {0, 1, 3, 5, 6} |->
              IF off = 0 THEN -2 ELSE IF off = 1 THEN -1
              ELSE IF off = 3 THEN 0 ELSE IF off = 5 THEN 1 ELSE 2]

\* C16: in the tick in which the ball reaches a paddle's column, the paddle
\* placed off rows above the ball's row (off one of 0, 1, 3, 5, 6, not
\* clamped) is hit and the ball leaves with the vy the offset is aimed at.
C16_TrickShotAims ==
    [][ \A off \in {0, 1, 3, 5, 6} :
          /\ (ball_x = 2 /\ vx < 0 /\ ball_y - off > 1 /\ ax' = ball_y - off)
                 => (vx' = 1 /\ vy' = C16_Aim[off])
          /\ (ball_x = W - 3 /\ vx > 0 /\ ball_y - off > 1 /\ bx' = ball_y - off)
                 => (vx' = -1 /\ vy' = C16_Aim[off]) ]_vars

\* C17: a tick moves each paddle's row by at most PADDLE_SPEED.
C17_PaddleSpeed ==
    [][ /\ ax' - ax =< PADDLE_SPEED /\ ax - ax' =< PADDLE_SPEED
        /\ bx' - bx =< PADDLE_SPEED /\ bx - bx' =< PADDLE_SPEED ]_vars

\* C18: after a non-scoring tick that reversed vx the ball is in the
\* column of the paddle it left, within that paddle's committed span.
C18_HitInCommittedSpan ==
    [][ (NoScore /\ vx' # vx) =>
          \/ /\ ball_x' = 1 /\ vx' = 1
             /\ ax' =< ball_y' /\ ball_y' =< ax' + PADDLE_H - 1
          \/ /\ ball_x' = W - 2 /\ vx' = -1
             /\ bx' =< ball_y' /\ ball_y' =< bx' + PADDLE_H - 1 ]_vars

\* the ball has just left the bottom row of the right paddle
C18_Witness == ball_x = W - 2 /\ vx = -1 /\ ball_y = bx + PADDLE_H - 1 /\ vy = 2

\* C19: a ball in a paddle's column that still moves outward scores in the
\* next tick, and a point is only ever scored from such a state.
C19_MissedBallScores ==
    [][ /\ (ball_x = 1 /\ vx = -1) => score_b' = score_b + 1
        /\ (ball_x = W - 2 /\ vx = 1) => score_a' = score_a + 1
        /\ score_b' # score_b => (ball_x = 1 /\ vx = -1)
        /\ score_a' # score_a => (ball_x = W - 2 /\ vx = 1) ]_vars

\* the ball went past the left paddle and TICK_SQL is about to run
C19_Witness == ball_x = 1 /\ vx = -1 /\ pc = "tick" /\ tick = 39

\* C20: vx is -1 or +1 and changes only on a paddle collision or a
\* re-serve; the distance of the ball to the end column it moves toward is
\* at most W and shrinks by exactly 1 in every tick without a collision or
\* a score, staying positive, so one of the two comes within W ticks.
C20_NoStall ==
    [][ LET dist  == IF vx < 0 THEN ball_x ELSE W - 1 - ball_x
            dist2 == IF vx' < 0 THEN ball_x' ELSE W - 1 - ball_x'
            hit   == NoScore /\ \/ (ball_x' = 1 /\ vx < 0 /\ vx' > 0)
                                \/ (ball_x' = W - 2 /\ vx > 0 /\ vx' < 0)
        IN  /\ vx \in {-1, 1} /\ vx' \in {-1, 1}
            /\ vx' # vx => (hit \/ ~NoScore)
            /\ dist >= 1 /\ dist =< W
            /\ (NoScore /\ ~hit) => (dist2 = dist - 1 /\ dist2 >= 1) ]_vars

\* the ball has just left the left paddle with the whole field ahead
C20_Witness == ball_x = 1 /\ vx = 1 /\ tick = 39 /\ pc = "render"

====
